---- MODULE Spec2Model ----
(***************************************************************************)
(* A model of the it_lab database: the typed value model (types.rs), the   *)
(* schema-checked table (table.rs), the table registry with projection and *)
(* snapshot persistence (database.rs), and the RPC server that guards one  *)
(* open database with a mutex (db-server/src/main.rs).                     *)
(*                                                                         *)
(* The library functions are operators that take the value they act on and *)
(* return the result together with the value afterwards.  The actions are  *)
(* the callers: Spec drives the library the way its tests do, SpecDisk     *)
(* adds save and load_from_disk, SpecServer is the server's handlers.      *)
(***************************************************************************)
EXTENDS Integers, Sequences, FiniteSets, TLC

VARIABLES
    slot,    \* Option<SavedDatabase>: the database the caller / the server holds
    files,   \* the file system: path -> bytes of the file, or NoFile
    last,    \* the last library call: its name, arguments and returned value
    lock,    \* tokio Mutex around the slot: the handler that holds it, or Free
    pc,      \* per handler: where it is in its request
    req,     \* per handler: the request it is serving
    shadow   \* the slot and files obtained by running the requests one at a
             \* time, in the order in which they took the lock

vars == <<slot, files, last, lock, pc, req, shadow>>

-----------------------------------------------------------------------------
(* Bounds of the model *)

\* No table grows beyond MaxRows rows.
MaxRows == 2

\* The number of concurrently served connections.
NumHandlers == 2

-----------------------------------------------------------------------------
(* Results: Result<T, DbError> and a panic *)

Ok == [tag |-> "Ok", arg |-> ""]

\* types.rs, enum DbError: the variant and the table name it carries, if any.
Err(variant, name) == [tag |-> variant, arg |-> name]

\* An unwinding panic (an index out of bounds, an unwrap of an Err).
Panic == [tag |-> "Panic", arg |-> ""]

-----------------------------------------------------------------------------
(* types.rs *)

DbType == {"Int", "Real", "Char", "String", "Time"}

\* A DbValue is a variant with its payload.
DbValue(variant, payload) == [tag |-> variant, val |-> payload]

get_type(v) ==
    CASE v.tag = "Int" -> "Int"
      [] v.tag = "Real" -> "Real"
      [] v.tag = "Char" -> "Char"
      [] v.tag = "String" -> "String"
      [] v.tag = "Time" -> "Time"

\* Row::schema: the type of each value, in order.
Row_schema(row) == [i \in 1..Len(row) |-> get_type(row[i])]

-----------------------------------------------------------------------------
(* table.rs *)

Table_new(name, schema) == [name |-> name, rows |-> <<>>, schema |-> schema]

\* insert_row without the comparison of the schemas.
insert_row_unchecked(table, row) ==
    [res |-> Ok, table |-> [table EXCEPT !.rows = Append(@, row)]]

\* insert_row with the new row put first instead of last.
insert_row_front(table, row) ==
    IF Row_schema(row) = table.schema
    THEN [res |-> Ok, table |-> [table EXCEPT !.rows = <<row>> \o @]]
    ELSE [res |-> Err("IncorrectRow", ""), table |-> table]

insert_row(table, row) ==
    IF Row_schema(row) = table.schema
    THEN [res |-> Ok, table |-> [table EXCEPT !.rows = Append(@, row)]]
    ELSE [res |-> Err("IncorrectRow", ""), table |-> table]

\* update_row that inserts the row at idx instead of replacing the one there.
update_row_insert(table, idx, row) ==
    IF Row_schema(row) = table.schema
    THEN IF idx < Len(table.rows)
         THEN [res |-> Ok,
               table |-> [table EXCEPT !.rows =
                   SubSeq(@, 1, idx) \o <<row>> \o SubSeq(@, idx + 1, Len(@))]]
         ELSE [res |-> Panic, table |-> table]
    ELSE [res |-> Err("IncorrectRow", ""), table |-> table]

\* idx is a usize, counted from 0; self.rows[idx] panics when idx >= len.
update_row(table, idx, row) ==
    IF Row_schema(row) = table.schema
    THEN IF idx < Len(table.rows)
         THEN [res |-> Ok, table |-> [table EXCEPT !.rows[idx + 1] = row]]
         ELSE [res |-> Panic, table |-> table]
    ELSE [res |-> Err("IncorrectRow", ""), table |-> table]

\* Vec::pop in place of Vec::remove: the last element goes, whatever idx is.
Vec_pop(v, idx) == SubSeq(v, 1, Len(v) - 1)

\* Vec::remove(idx): the elements after idx move one place down.
Vec_remove(v, idx) ==
    [i \in 1..(Len(v) - 1) |-> IF i <= idx THEN v[i] ELSE v[i + 1]]

remove_row(table, idx) ==
    IF Len(table.rows) > idx
    THEN [table EXCEPT !.rows = Vec_remove(@, idx)]
    ELSE table

validate_rows(table) ==
    IF \E i \in 1..Len(table.rows) : Row_schema(table.rows[i]) # table.schema
    THEN Err("InvalidTableState", table.name)
    ELSE Ok

-----------------------------------------------------------------------------
(* database.rs: the table registry *)

\* Option<SavedDatabase>
None == [some |-> FALSE]
Some(sdb) == [some |-> TRUE, val |-> sdb]

\* HashMap::insert and HashMap::remove on the tables map.
Map_insert(m, k, v) == [n \in DOMAIN m \cup {k} |-> IF n = k THEN v ELSE m[n]]
Map_remove(m, k) == [n \in DOMAIN m \ {k} |-> m[n]]

\* create_table through HashMap::insert, which replaces a table of that name.
create_table_overwrite(sdb, name, schema) ==
    [res |-> Ok,
     sdb |-> [sdb EXCEPT !.db.tables = Map_insert(@, name, Table_new(name, schema))]]

create_table(sdb, name, schema) ==
    IF name \notin DOMAIN sdb.db.tables
    THEN [res |-> Ok,
          sdb |-> [sdb EXCEPT !.db.tables =
                       Map_insert(@, name, Table_new(name, schema))]]
    ELSE [res |-> Err("TableIsAlreadyPresent", name), sdb |-> sdb]

get_table_names(sdb) == DOMAIN sdb.db.tables

\* get_table and get_table_mut: the same lookup, the table by reference.
get_table(sdb, name) ==
    IF name \in DOMAIN sdb.db.tables
    THEN [res |-> Ok, table |-> sdb.db.tables[name]]
    ELSE [res |-> Err("TableIsMissing", name), table |-> Table_new("", <<>>)]

get_table_mut(sdb, name) == get_table(sdb, name)

\* Writing through the reference get_table_mut returned.
set_table(sdb, name, table) == [sdb EXCEPT !.db.tables[name] = table]

\* remove_table through HashMap::remove, which accepts a name it does not hold.
remove_table_lenient(sdb, name) ==
    [res |-> Ok,
     sdb |-> IF name \in DOMAIN sdb.db.tables
             THEN [sdb EXCEPT !.db.tables = Map_remove(@, name)]
             ELSE sdb]

remove_table(sdb, name) ==
    IF name \in DOMAIN sdb.db.tables
    THEN [res |-> Ok, sdb |-> [sdb EXCEPT !.db.tables = Map_remove(@, name)]]
    ELSE [res |-> Err("TableIsMissing", name), sdb |-> sdb]

get_name(sdb) == sdb.db.name

\* The mask read from its far end: column i kept when mask[len + 1 - i] is set.
Masked_mirrored(seq, mask) ==
    LET kept == {i \in 1..Len(seq) : mask[Len(mask) + 1 - i]}
        RECURSIVE pick(_)
        pick(from) ==
            IF from > Len(seq) THEN <<>>
            ELSE IF from \in kept THEN <<seq[from]>> \o pick(from + 1)
            ELSE pick(from + 1)
    IN  pick(1)

\* The elements of seq at the positions where mask is true, in order.
RECURSIVE Masked(_, _)
Masked(seq, mask) ==
    IF seq = <<>> THEN <<>>
    ELSE LET rest == Masked(Tail(seq), Tail(mask))
         IN  IF Head(mask) THEN <<Head(seq)>> \o rest ELSE rest

\* The loop at the end of projection: each new row goes through
\* get_table_mut(new_name)?.insert_row(row)?, stopping at the first error.
RECURSIVE insert_all(_, _, _)
insert_all(sdb, new_name, new_rows) ==
    IF new_rows = <<>> THEN [res |-> Ok, sdb |-> sdb]
    ELSE LET t == get_table_mut(sdb, new_name)
         IN  IF t.res # Ok THEN [res |-> t.res, sdb |-> sdb]
             ELSE LET r == insert_row(t.table, Head(new_rows))
                  IN  IF r.res # Ok THEN [res |-> r.res, sdb |-> sdb]
                      ELSE insert_all(set_table(sdb, new_name, r.table),
                                      new_name, Tail(new_rows))

\* projection with create_table called ahead of the check of the mask length.
projection_create_first(sdb, table_name, rows, new_name) ==
    LET t == get_table(sdb, table_name)
        c == create_table(sdb, new_name, <<>>)
    IN  IF t.res # Ok THEN [res |-> t.res, sdb |-> sdb]
        ELSE IF Len(t.table.schema) # Len(rows)
        THEN [res |-> Err("IncorrectRow", ""), sdb |-> c.sdb]
        ELSE IF c.res # Ok THEN [res |-> c.res, sdb |-> sdb]
        ELSE insert_all(create_table(sdb, new_name, Masked(t.table.schema, rows)).sdb,
                        new_name,
                        [i \in 1..Len(t.table.rows) |-> Masked(t.table.rows[i], rows)])

\* projection with the result of create_table dropped: on a collision the
\* rows go on to the table that has the name already.
projection_ignoring_collision(sdb, table_name, rows, new_name) ==
    LET t == get_table(sdb, table_name)
    IN  IF t.res # Ok THEN [res |-> t.res, sdb |-> sdb]
        ELSE IF Len(t.table.schema) # Len(rows)
        THEN [res |-> Err("IncorrectRow", ""), sdb |-> sdb]
        ELSE insert_all(create_table(sdb, new_name, Masked(t.table.schema, rows)).sdb,
                        new_name,
                        [i \in 1..Len(t.table.rows) |-> Masked(t.table.rows[i], rows)])

\* `rows` is the column mask.  rows[index] panics for a row longer than it.
projection(sdb, table_name, rows, new_name) ==
    LET t == get_table(sdb, table_name)
    IN  IF t.res # Ok THEN [res |-> t.res, sdb |-> sdb]
        ELSE IF Len(t.table.schema) # Len(rows)
        THEN [res |-> Err("IncorrectRow", ""), sdb |-> sdb]
        ELSE IF \E i \in 1..Len(t.table.rows) : Len(t.table.rows[i]) > Len(rows)
        THEN [res |-> Panic, sdb |-> sdb]
        ELSE LET new_schema == Masked(t.table.schema, rows)
                 new_rows == [i \in 1..Len(t.table.rows) |->
                                  Masked(t.table.rows[i], rows)]
                 c == create_table(sdb, new_name, new_schema)
             IN  IF c.res # Ok THEN [res |-> c.res, sdb |-> sdb]
                 ELSE insert_all(c.sdb, new_name, new_rows)

-----------------------------------------------------------------------------
(* The file system the server runs on *)

\* main.rs, const PATH: the file the server loads when it starts.
PATH == "database"

\* "a" and PATH: writable places.  "ro/x": the parent directory cannot be
\* created.  "dir": the path is a directory, so File::create fails.  "full":
\* the file is created (and truncated) but nothing can be written to it.
\* "bad": a file that was not written by save; it is only ever read.
Paths == {"a", PATH, "ro/x", "dir", "full", "bad"}

PathKind ==
    [p \in Paths |->
        CASE p = "a" -> "ok"
          [] p = PATH -> "ok"
          [] p = "ro/x" -> "noparent"
          [] p = "dir" -> "isdir"
          [] p = "full" -> "nospace"
          [] p = "bad" -> "ok"]

\* Option<Vec<u8>>: the bytes of a file, None when there is no file.
NoFiles == [p \in Paths |-> None]

-----------------------------------------------------------------------------
(* bincode: the bytes of a Database.  A u64 length, a u32 variant index and  *)
(* an i64 are one element each, a string is its length and its UTF-8 bytes. *)

Strings == {"", "db", "t", "p", "B", "1970-01-01T00:00:00Z"}

Utf8 ==
    [s \in Strings |->
        CASE s = "" -> <<>>
          [] s = "db" -> <<100, 98>>
          [] s = "t" -> <<116>>
          [] s = "p" -> <<112>>
          [] s = "B" -> <<66>>
          [] s = "1970-01-01T00:00:00Z" ->
                <<49, 57, 55, 48, 45, 48, 49, 45, 48, 49, 84,
                  48, 48, 58, 48, 48, 58, 48, 48, 90>>]

\* The declaration order of the variants of DbType and of DbValue.
Variants == <<"Int", "Real", "Char", "String", "Time">>

VariantIndex(variant) == (CHOOSE i \in 1..Len(Variants) : Variants[i] = variant) - 1

\* chrono serializes a DateTime<Utc> as its RFC 3339 text; the payload of a
\* Time is the number of seconds since the epoch.
TimeText(t) == CASE t = 0 -> "1970-01-01T00:00:00Z"

ser_string(s) == <<Len(Utf8[s])>> \o Utf8[s]

ser_type(type) == <<VariantIndex(type)>>

ser_value(v) ==
    <<VariantIndex(v.tag)>> \o
    CASE v.tag = "Int" -> <<v.val>>
      [] v.tag = "Real" -> <<v.val>>
      [] v.tag = "Char" -> <<v.val>>
      [] v.tag = "String" -> ser_string(v.val)
      [] v.tag = "Time" -> ser_string(TimeText(v.val))

RECURSIVE ser_values(_)
ser_values(vs) ==
    IF vs = <<>> THEN <<>> ELSE ser_value(Head(vs)) \o ser_values(Tail(vs))

\* Row is a newtype around Vec<DbValue>: the length, then the values.
ser_row(row) == <<Len(row)>> \o ser_values(row)

RECURSIVE ser_rows(_)
ser_rows(rows) ==
    IF rows = <<>> THEN <<>> ELSE ser_row(Head(rows)) \o ser_rows(Tail(rows))

RECURSIVE ser_types(_)
ser_types(types) ==
    IF types = <<>> THEN <<>> ELSE ser_type(Head(types)) \o ser_types(Tail(types))

\* ser_table with the schema written before the rows.
ser_table_schema_first(table) ==
    ser_string(table.name)
        \o <<Len(table.schema)>> \o ser_types(table.schema)
        \o <<Len(table.rows)>> \o ser_rows(table.rows)

\* struct Table { name, rows, schema }, the fields in this order.
ser_table(table) ==
    ser_string(table.name)
        \o <<Len(table.rows)>> \o ser_rows(table.rows)
        \o <<Len(table.schema)>> \o ser_types(table.schema)

\* The entries of the HashMap in the order `keys` in which it iterates.
RECURSIVE ser_entries(_, _)
ser_entries(tables, keys) ==
    IF keys = <<>> THEN <<>>
    ELSE ser_string(Head(keys)) \o ser_table(tables[Head(keys)])
             \o ser_entries(tables, Tail(keys))

\* struct Database { name, tables }.
serialize(db, keys) ==
    ser_string(db.name) \o <<Len(keys)>> \o ser_entries(db.tables, keys)

\* The bytes of a file whose table "t" holds a row that does not fit the
\* schema stored with it; its table "p" is sound.
CorruptFile ==
    serialize([name |-> "db",
               tables |-> [n \in {"t", "p"} |->
                   [name |-> n,
                    rows |-> IF n = "t" THEN <<<<[tag |-> "String", val |-> "B"]>>>>
                             ELSE <<<<[tag |-> "Int", val |-> 1]>>>>,
                    schema |-> <<"Int">>]]],
              <<"p", "t">>)

\* The orders in which a HashMap with these keys may iterate.
IterOrders(keys) ==
    {o \in [1..Cardinality(keys) -> keys] : \A k \in keys : \E i \in DOMAIN o : o[i] = k}

-----------------------------------------------------------------------------
(* bincode: reading a Database back.  Every reader returns whether it       *)
(* succeeded, the value read and the bytes left.                            *)

DeFail == [ok |-> FALSE, val |-> 0, rest |-> <<>>]
DeOk(val, rest) == [ok |-> TRUE, val |-> val, rest |-> rest]

\* A u64 length, a u32 variant index or an i64: one element.
de_int(bytes) ==
    IF bytes = <<>> THEN DeFail ELSE DeOk(Head(bytes), Tail(bytes))

\* The n.val bytes after the length n, which must be valid UTF-8.
de_string_bytes(n) ==
    IF ~n.ok \/ n.val < 0 \/ n.val > Len(n.rest) THEN DeFail
    ELSE IF \E s \in Strings : Utf8[s] = SubSeq(n.rest, 1, n.val)
    THEN DeOk(CHOOSE s \in Strings : Utf8[s] = SubSeq(n.rest, 1, n.val),
              SubSeq(n.rest, n.val + 1, Len(n.rest)))
    ELSE DeFail

\* A String: the length, then that many bytes.
de_string(bytes) == de_string_bytes(de_int(bytes))

de_variant(i) ==
    IF ~i.ok \/ i.val < 0 \/ i.val >= Len(Variants) THEN DeFail
    ELSE DeOk(Variants[i.val + 1], i.rest)

\* A DbType: the index of one of the five variants.
de_type(bytes) == de_variant(de_int(bytes))

\* The payload of an Int, a Real or a Char.
de_number(variant, n) ==
    IF n.ok THEN DeOk(DbValue(variant, n.val), n.rest) ELSE DeFail

\* The payload of a String, or of a Time, which is parsed from its text.
de_text(variant, s) ==
    IF ~s.ok THEN DeFail
    ELSE IF variant = "String" THEN DeOk(DbValue("String", s.val), s.rest)
    ELSE IF s.val = TimeText(0) THEN DeOk(DbValue("Time", 0), s.rest)
    ELSE DeFail

de_payload(i) ==
    IF ~i.ok THEN DeFail
    ELSE IF i.val \in {"Int", "Real", "Char"} THEN de_number(i.val, de_int(i.rest))
    ELSE de_text(i.val, de_string(i.rest))

\* A DbValue: the index of the variant, then its payload.
de_value(bytes) == de_payload(de_type(bytes))

\* n values, appended to acc; v is the one just read.
RECURSIVE de_values(_, _, _)
de_values_next(v, n, acc) ==
    IF v.ok THEN de_values(v.rest, n - 1, Append(acc, v.val)) ELSE DeFail

de_values(bytes, n, acc) ==
    IF n = 0 THEN DeOk(acc, bytes) ELSE de_values_next(de_value(bytes), n, acc)

de_row_values(n) ==
    IF ~n.ok \/ n.val < 0 THEN DeFail ELSE de_values(n.rest, n.val, <<>>)

\* A Row: the number of values, then the values.
de_row(bytes) == de_row_values(de_int(bytes))

RECURSIVE de_rows(_, _, _)
de_rows_next(r, n, acc) ==
    IF r.ok THEN de_rows(r.rest, n - 1, Append(acc, r.val)) ELSE DeFail

de_rows(bytes, n, acc) ==
    IF n = 0 THEN DeOk(acc, bytes) ELSE de_rows_next(de_row(bytes), n, acc)

RECURSIVE de_types(_, _, _)
de_types_next(t, n, acc) ==
    IF t.ok THEN de_types(t.rest, n - 1, Append(acc, t.val)) ELSE DeFail

de_types(bytes, n, acc) ==
    IF n = 0 THEN DeOk(acc, bytes) ELSE de_types_next(de_type(bytes), n, acc)

\* struct Table, field by field: name, rows, schema.
de_table_done(name, rows, schema) ==
    IF schema.ok
    THEN DeOk([name |-> name, rows |-> rows, schema |-> schema.val], schema.rest)
    ELSE DeFail

de_table_schema(name, rows, ncols) ==
    IF ncols.ok /\ ncols.val >= 0
    THEN de_table_done(name, rows, de_types(ncols.rest, ncols.val, <<>>))
    ELSE DeFail

de_table_ncols(name, rows) ==
    IF rows.ok THEN de_table_schema(name, rows.val, de_int(rows.rest)) ELSE DeFail

de_table_rows(name, nrows) ==
    IF nrows.ok /\ nrows.val >= 0
    THEN de_table_ncols(name, de_rows(nrows.rest, nrows.val, <<>>))
    ELSE DeFail

de_table_nrows(name) ==
    IF name.ok THEN de_table_rows(name.val, de_int(name.rest)) ELSE DeFail

de_table(bytes) == de_table_nrows(de_string(bytes))

\* n entries of the HashMap, each inserted into acc as it is read.
RECURSIVE de_entries(_, _, _)
de_entries_insert(key, table, n, acc) ==
    IF table.ok
    THEN de_entries(table.rest, n - 1, Map_insert(acc, key, table.val))
    ELSE DeFail

de_entries_value(key, n, acc) ==
    IF key.ok THEN de_entries_insert(key.val, de_table(key.rest), n, acc) ELSE DeFail

de_entries(bytes, n, acc) ==
    IF n = 0 THEN DeOk(acc, bytes) ELSE de_entries_value(de_string(bytes), n, acc)

\* struct Database, field by field: name, tables.
de_database_done(name, tables) ==
    IF tables.ok
    THEN DeOk([name |-> name, tables |-> tables.val], tables.rest)
    ELSE DeFail

de_database_tables(name, n) ==
    IF n.ok /\ n.val >= 0
    THEN de_database_done(name, de_entries(n.rest, n.val, <<>>))
    ELSE DeFail

de_database_ntables(name) ==
    IF name.ok THEN de_database_tables(name.val, de_int(name.rest)) ELSE DeFail

\* bincode::deserialize::<Database>: bytes after the value are ignored.
deserialize(bytes) == de_database_ntables(de_string(bytes))

-----------------------------------------------------------------------------
(* database.rs: snapshot persistence *)

\* save writes the tables in the order `keys` in which the HashMap iterates.
\* create_dir_all(..).unwrap() panics; File::create truncates the file.
save(sdb, fs, keys) ==
    IF PathKind[sdb.path] = "noparent" THEN [res |-> Panic, files |-> fs]
    ELSE IF PathKind[sdb.path] = "isdir"
    THEN [res |-> Err("Io", ""), files |-> fs]
    ELSE IF PathKind[sdb.path] = "nospace"
    THEN [res |-> Err("Io", ""), files |-> [fs EXCEPT ![sdb.path] = Some(<<>>)]]
    ELSE [res |-> Ok,
          files |-> [fs EXCEPT ![sdb.path] = Some(serialize(sdb.db, keys))]]

create(name, path, fs) ==
    LET pinned_db == [db |-> [name |-> name, tables |-> <<>>], path |-> path]
        saved == save(pinned_db, fs, <<>>)
    IN  [res |-> saved.res, sdb |-> pinned_db, files |-> saved.files]

\* The end of load_from_disk with the loop over validate_rows left out.
validated_unchecked(path, db) ==
    IF ~db.ok THEN {[res |-> Err("Serde", ""), sdb |-> None]}
    ELSE {[res |-> Ok, sdb |-> Some([db |-> db.val, path |-> path])]}

\* The files found on the disk at the start: the corrupt one at "bad".
FoundFiles == [NoFiles EXCEPT !["bad"] = Some(CorruptFile)]

\* The tables that validate_rows rejects.
invalid_tables(db) ==
    {n \in DOMAIN db.tables : validate_rows(db.tables[n]) # Ok}

\* The end of load_from_disk, db being what bincode::deserialize returned.
validated(path, db) ==
    IF ~db.ok THEN {[res |-> Err("Serde", ""), sdb |-> None]}
    ELSE IF invalid_tables(db.val) # {}
    THEN {[res |-> Err("InvalidTableState", db.val.tables[n].name), sdb |-> None] :
              n \in invalid_tables(db.val)}
    ELSE {[res |-> Ok, sdb |-> Some([db |-> db.val, path |-> path])]}

\* The outcomes of load_from_disk: the tables are validated in the order in
\* which the HashMap iterates, so any table with a bad row may be the one named.
load_from_disk(path, fs) ==
    IF ~fs[path].some THEN {[res |-> Err("Io", ""), sdb |-> None]}
    ELSE validated(path, deserialize(fs[path].val))

-----------------------------------------------------------------------------
(* The values the callers pass *)

Int1 == DbValue("Int", 1)
Int2 == DbValue("Int", 2)
StrB == DbValue("String", "B")

TableNames == {"t", "p"}
Schemas == {<<"Int">>, <<"Int", "String">>}
RowInputs == {<<Int1>>, <<Int1, StrB>>, <<Int2, StrB>>, <<StrB, Int1>>}
Masks == {<<TRUE>>, <<TRUE, FALSE>>, <<FALSE, TRUE>>, <<TRUE, TRUE>>, <<FALSE, FALSE>>}
Indices == 0..MaxRows

Handlers == 1..NumHandlers
Free == 0

\* The model stops growing a table at MaxRows rows.
WithinBounds(sdb) ==
    \A n \in DOMAIN sdb.db.tables : Len(sdb.db.tables[n].rows) <= MaxRows

Call(op, args, res) == [op |-> op, args |-> args, res |-> res]

\* A caller of the library that panicked has stopped.
Running == last.res # Panic

ServerIdle ==
    /\ lock = Free
    /\ pc = [h \in Handlers |-> "idle"]
    /\ req = [h \in Handlers |-> None]
    /\ shadow = None

-----------------------------------------------------------------------------
(* The library's callers: one action per public function, called the way    *)
(* tests.rs calls it, on the SavedDatabase the caller holds in `slot`.      *)

CreateTable(name, schema) ==
    /\ Running /\ slot.some
    /\ LET r == create_table(slot.val, name, schema)
       IN  /\ slot' = Some(r.sdb)
           /\ last' = Call("create_table", [name |-> name, schema |-> schema], r.res)
    /\ UNCHANGED <<files, lock, pc, req, shadow>>

RemoveTable(name) ==
    /\ Running /\ slot.some
    /\ LET r == remove_table(slot.val, name)
       IN  /\ slot' = Some(r.sdb)
           /\ last' = Call("remove_table", [name |-> name], r.res)
    /\ UNCHANGED <<files, lock, pc, req, shadow>>

GetTable(name) ==
    /\ Running /\ slot.some
    /\ last' = Call("get_table", [name |-> name], get_table(slot.val, name).res)
    /\ UNCHANGED <<slot, files, lock, pc, req, shadow>>

GetTableMut(name) ==
    /\ Running /\ slot.some
    /\ last' = Call("get_table_mut", [name |-> name], get_table_mut(slot.val, name).res)
    /\ UNCHANGED <<slot, files, lock, pc, req, shadow>>

\* insert_row followed by a save of the database, unasked.
InsertRow_autosave(table, row) ==
    /\ Running /\ slot.some
    /\ LET g == get_table_mut(slot.val, table)
           r == insert_row(g.table, row)
           args == [table |-> table, row |-> row]
       IN  IF g.res # Ok
           THEN /\ last' = Call("insert_row", args, g.res)
                /\ slot' = slot
                /\ files' = files
           ELSE /\ Len(r.table.rows) <= MaxRows
                /\ last' = Call("insert_row", args, r.res)
                /\ slot' = Some(set_table(slot.val, table, r.table))
                /\ files' = save(set_table(slot.val, table, r.table), files,
                                 CHOOSE keys \in IterOrders(get_table_names(slot.val)) : TRUE).files
    /\ UNCHANGED <<lock, pc, req, shadow>>

\* db.get_table_mut(table)?.insert_row(row)
InsertRow(table, row) ==
    /\ Running /\ slot.some
    /\ LET g == get_table_mut(slot.val, table)
           r == insert_row(g.table, row)
           args == [table |-> table, row |-> row]
       IN  IF g.res # Ok
           THEN /\ last' = Call("insert_row", args, g.res)
                /\ slot' = slot
           ELSE /\ Len(r.table.rows) <= MaxRows
                /\ last' = Call("insert_row", args, r.res)
                /\ slot' = Some(set_table(slot.val, table, r.table))
    /\ UNCHANGED <<files, lock, pc, req, shadow>>

\* db.get_table_mut(table)?.update_row(idx, row)
UpdateRow(table, idx, row) ==
    /\ Running /\ slot.some
    /\ LET g == get_table_mut(slot.val, table)
           r == update_row(g.table, idx, row)
           args == [table |-> table, idx |-> idx, row |-> row]
       IN  IF g.res # Ok
           THEN /\ last' = Call("update_row", args, g.res)
                /\ slot' = slot
           ELSE /\ last' = Call("update_row", args, r.res)
                /\ slot' = Some(set_table(slot.val, table, r.table))
    /\ UNCHANGED <<files, lock, pc, req, shadow>>

\* db.get_table_mut(table)?.remove_row(idx)
RemoveRow(table, idx) ==
    /\ Running /\ slot.some
    /\ LET g == get_table_mut(slot.val, table)
           args == [table |-> table, idx |-> idx]
       IN  IF g.res # Ok
           THEN /\ last' = Call("remove_row", args, g.res)
                /\ slot' = slot
           ELSE /\ last' = Call("remove_row", args, Ok)
                /\ slot' = Some(set_table(slot.val, table, remove_row(g.table, idx)))
    /\ UNCHANGED <<files, lock, pc, req, shadow>>

Projection(table, mask, new_name) ==
    /\ Running /\ slot.some
    /\ LET r == projection(slot.val, table, mask, new_name)
       IN  /\ slot' = Some(r.sdb)
           /\ last' = Call("projection",
                           [table |-> table, mask |-> mask, new_name |-> new_name],
                           r.res)
    /\ UNCHANGED <<files, lock, pc, req, shadow>>

-----------------------------------------------------------------------------
(* Spec: a database freshly created at "a", then any calls of the table API *)

Init ==
    LET c == create("db", "a", NoFiles)
    IN  /\ slot = Some(c.sdb)
        /\ files = c.files
        /\ last = Call("create", [name |-> "db", path |-> "a"], c.res)
        /\ ServerIdle

Next ==
    \/ \E n \in TableNames, s \in Schemas : CreateTable(n, s)
    \/ \E n \in TableNames : RemoveTable(n)
    \/ \E n \in TableNames : GetTable(n)
    \/ \E n \in TableNames : GetTableMut(n)
    \/ \E t \in TableNames, r \in RowInputs : InsertRow(t, r)
    \/ \E t \in TableNames, i \in Indices, r \in RowInputs : UpdateRow(t, i, r)
    \/ \E t \in TableNames, i \in Indices : RemoveRow(t, i)
    \/ \E t \in TableNames, m \in Masks, n \in TableNames : Projection(t, m, n)

Spec == Init /\ [][Next]_vars

-----------------------------------------------------------------------------
(* SpecDisk: the library with its persistence.  The caller keeps in `slot`  *)
(* the SavedDatabase that create or load_from_disk returned last.           *)

\* let db = SavedDatabase::create(name, path)?
Create(name, path) ==
    /\ Running
    /\ LET c == create(name, path, files)
       IN  /\ files' = c.files
           /\ slot' = IF c.res = Ok THEN Some(c.sdb) ELSE slot
           /\ last' = Call("create", [name |-> name, path |-> path], c.res)
    /\ UNCHANGED <<lock, pc, req, shadow>>

\* db.save()
Save ==
    /\ Running /\ slot.some
    /\ \E keys \in IterOrders(get_table_names(slot.val)) :
          LET r == save(slot.val, files, keys)
          IN  /\ files' = r.files
              /\ last' = Call("save", [path |-> slot.val.path], r.res)
    /\ UNCHANGED <<slot, lock, pc, req, shadow>>

\* let db = SavedDatabase::load_from_disk(path)?
Load(path) ==
    /\ Running
    /\ \E r \in load_from_disk(path, files) :
          /\ slot' = IF r.res = Ok THEN r.sdb ELSE slot
          /\ last' = Call("load_from_disk", [path |-> path], r.res)
    /\ UNCHANGED <<files, lock, pc, req, shadow>>

DiskRows == {<<Int1, StrB>>, <<Int2, StrB>>}

InitDisk ==
    /\ slot = None
    /\ files = FoundFiles
    /\ last = Call("main", [path |-> ""], Ok)
    /\ ServerIdle

DiskPaths == Paths \ {PATH, "bad"}

NextDisk ==
    \/ \E path \in DiskPaths : Create("db", path)
    \/ Save
    \/ \E path \in DiskPaths \cup {"bad"} : Load(path)
    \/ CreateTable("t", <<"Int", "String">>)
    \/ RemoveTable("t")
    \/ \E r \in DiskRows : InsertRow("t", r)
    \/ \E r \in DiskRows : UpdateRow("t", 0, r)
    \/ RemoveRow("t", 0)
    \/ Projection("t", <<FALSE, TRUE>>, "p")

SpecDisk == InitDisk /\ [][NextDisk]_vars

-----------------------------------------------------------------------------
(* db-server/src/main.rs: what each handler does with the slot and the file *)
(* system once it holds the lock, and what it answers.  A handler that      *)
(* panics answers nothing; its guard is dropped as the task unwinds.        *)

Reply(value) == [tag |-> "Reply", arg |-> value]
Unit == Reply("()")

Done(s, f, resp) == [slot |-> s, files |-> f, resp |-> resp]

\* create that saves the database it is about to replace.
Server_create_saving_old(name, path, s, f) ==
    LET kept == IF s.some
                THEN save(s.val, f, CHOOSE keys \in IterOrders(get_table_names(s.val)) : TRUE).files
                ELSE f
        c == create(name, path, kept)
    IN  IF c.res = Ok THEN Done(Some(c.sdb), c.files, Unit)
        ELSE Done(s, c.files, Panic)

Server_create(name, path, s, f) ==
    LET c == create(name, path, f)
    IN  IF c.res = Ok THEN Done(Some(c.sdb), c.files, Unit)
        ELSE Done(s, c.files, Panic)

\* open that empties the slot before it loads the file.
Server_open_clearing(path, s, f) ==
    IF \E r \in load_from_disk(path, f) : r.res = Ok
    THEN Done((CHOOSE r \in load_from_disk(path, f) : r.res = Ok).sdb, f, Unit)
    ELSE Done(None, f, Panic)

Server_open(path, s, f) ==
    IF \E r \in load_from_disk(path, f) : r.res = Ok
    THEN Done((CHOOSE r \in load_from_disk(path, f) : r.res = Ok).sdb, f, Unit)
    ELSE Done(s, f, Panic)

Server_get_name(s, f) ==
    Done(s, f, Reply(IF s.some THEN Some(get_name(s.val)) ELSE None))

Server_get_table_names(s, f) ==
    Done(s, f, Reply(IF s.some THEN Some(get_table_names(s.val)) ELSE None))

Server_save(s, f, keys) ==
    IF ~s.some THEN Done(s, f, Unit)
    ELSE LET r == save(s.val, f, keys)
         IN  Done(s, r.files, IF r.res = Ok THEN Unit ELSE Panic)

Server_remove_table(name, s, f) ==
    IF ~s.some THEN Done(s, f, Unit)
    ELSE LET r == remove_table(s.val, name)
         IN  IF r.res = Ok THEN Done(Some(r.sdb), f, Unit) ELSE Done(s, f, Panic)

Server_create_table(name, schema, s, f) ==
    IF ~s.some THEN Done(s, f, Unit)
    ELSE LET r == create_table(s.val, name, schema)
         IN  IF r.res = Ok THEN Done(Some(r.sdb), f, Unit) ELSE Done(s, f, Panic)

Server_remove_row(table, index, s, f) ==
    IF s.some /\ get_table_mut(s.val, table).res = Ok
    THEN Done(Some(set_table(s.val, table,
                             remove_row(get_table_mut(s.val, table).table, index))),
              f, Unit)
    ELSE Done(s, f, Unit)

Server_insert_row(table, row, s, f) ==
    IF s.some /\ get_table_mut(s.val, table).res = Ok
    THEN Done(Some(set_table(s.val, table,
                             insert_row(get_table_mut(s.val, table).table, row).table)),
              f, Unit)
    ELSE Done(s, f, Unit)

Server_get_table_schema(table, s, f) ==
    IF s.some /\ get_table(s.val, table).res = Ok
    THEN Done(s, f, Reply(Some(get_table(s.val, table).table.schema)))
    ELSE Done(s, f, Reply(None))

Server_get_rows(table, s, f) ==
    IF s.some /\ get_table(s.val, table).res = Ok
    THEN Done(s, f, Reply(Some(get_table(s.val, table).table.rows)))
    ELSE Done(s, f, Reply(None))

Server_table_projection(table, rows, new_table, s, f) ==
    IF s.some THEN Done(Some(projection(s.val, table, rows, new_table).sdb), f, Unit)
    ELSE Done(s, f, Unit)

\* The handler of request r, run on slot s and files f; `keys` is the order
\* in which the tables are written, should it save.
Handle(r, s, f, keys) ==
    CASE r.op = "create" -> Server_create(r.args.name, r.args.path, s, f)
      [] r.op = "open" -> Server_open(r.args.path, s, f)
      [] r.op = "get_name" -> Server_get_name(s, f)
      [] r.op = "get_table_names" -> Server_get_table_names(s, f)
      [] r.op = "save" -> Server_save(s, f, keys)
      [] r.op = "remove_table" -> Server_remove_table(r.args.name, s, f)
      [] r.op = "create_table" ->
            Server_create_table(r.args.name, r.args.schema, s, f)
      [] r.op = "remove_row" -> Server_remove_row(r.args.table, r.args.index, s, f)
      [] r.op = "insert_row" -> Server_insert_row(r.args.table, r.args.row, s, f)
      [] r.op = "get_table_schema" -> Server_get_table_schema(r.args.table, s, f)
      [] r.op = "get_rows" -> Server_get_rows(r.args.table, s, f)
      [] r.op = "table_projection" ->
            Server_table_projection(r.args.table, r.args.rows, r.args.new_table, s, f)

\* The orders in which the tables of the slot may be written.
KeyOrders(s) == IF s.some THEN IterOrders(get_table_names(s.val)) ELSE {<<>>}

\* create and save write a file; the other handlers run without a pause.
WritesFile(r, s) == r.op = "create" \/ (r.op = "save" /\ s.some)

\* Whether the handler gets as far as File::create succeeding, which leaves
\* the file at `path` empty until write_all fills it.
TargetPath(r, s) == IF r.op = "create" THEN r.args.path ELSE s.val.path
FileCreated(r, s) == PathKind[TargetPath(r, s)] \in {"ok", "nospace"}

-----------------------------------------------------------------------------
(* SpecServer: NumHandlers request tasks around one Mutex<Option<..>>       *)

Request(op, args) == [op |-> op, args |-> args]
NoArgs == [none |-> TRUE]

ServerPaths == Paths \ {"a", "bad"}
ServerRows == {<<Int1>>, <<StrB>>}

Requests ==
    {Request("create", [name |-> "db", path |-> p]) : p \in ServerPaths}
    \cup {Request("open", [path |-> p]) : p \in ServerPaths \cup {"bad"}}
    \cup {Request(op, NoArgs) : op \in {"get_name", "get_table_names", "save"}}
    \cup {Request("remove_table", [name |-> n]) : n \in TableNames}
    \cup {Request("create_table", [name |-> "t", schema |-> <<"Int">>])}
    \cup {Request("remove_row", [table |-> "t", index |-> 0])}
    \cup {Request("insert_row", [table |-> "t", row |-> r]) : r \in ServerRows}
    \cup {Request(op, [table |-> "t"]) : op \in {"get_table_schema", "get_rows"}}
    \cup {Request("table_projection",
                  [table |-> "t", rows |-> <<TRUE>>, new_table |-> "p"])}

\* A lock().await that completes whether or not a guard is alive.
MutexIgnored(h) == TRUE

\* tokio's Mutex: lock().await completes only when no guard is alive.
MutexAvailable(h) == lock = Free

\* The guard dropped once the file is created, before it is written.
guard_dropped_for_io(h) == Free

\* The guard is a local of the handler: it lives through the file I/O.
guard_during_io(h) == h

\* lock.replace(new_db) hands back the value that was in the slot; create
\* and open drop it as they return.
Replaced(r, s, resp) ==
    IF r.op \in {"create", "open"} /\ resp = Unit THEN s ELSE None

\* The handler's body has ended with `resp`.
Answered(h, resp) ==
    [req EXCEPT ![h].val.resp = resp,
                ![h].val.replaced = Replaced(req[h].val.call, slot, resp)]

\* A guard that outlives a handler that panicked.
guard_leaked_on_panic(h) == IF req[h].val.resp = Panic THEN h ELSE Free

\* The guard is a local of the handler: it is dropped when the handler
\* returns and when it unwinds.
guard_dropped(h) == Free

\* A request reaches the server and its task waits at lock().await.
Receive(h) ==
    /\ pc[h] = "idle"
    /\ pc' = [pc EXCEPT ![h] = "waiting"]
    /\ UNCHANGED <<slot, files, last, lock, req, shadow>>

\* The task gets the guard.  The request is r; done alone at this point, on
\* the shadow, it would answer `expect`.
Acquire(h, r) ==
    /\ pc[h] = "waiting"
    /\ MutexAvailable(h)
    /\ LET serial == Handle(r, shadow.slot, shadow.files,
                            CHOOSE keys \in KeyOrders(shadow.slot) : TRUE)
       IN  /\ serial.slot.some => WithinBounds(serial.slot.val)
           /\ shadow' = [slot |-> serial.slot, files |-> serial.files]
           /\ req' = [req EXCEPT ![h] =
                         Some([call |-> r, expect |-> serial.resp, resp |-> None,
                               replaced |-> None])]
    /\ lock' = h
    /\ pc' = [pc EXCEPT ![h] = "locked"]
    /\ UNCHANGED <<slot, files, last>>

\* A handler other than a writing create or save: its body, in one go.
Run(h) ==
    /\ pc[h] = "locked"
    /\ ~WritesFile(req[h].val.call, slot)
    /\ LET o == Handle(req[h].val.call, slot, files, <<>>)
       IN  /\ slot' = o.slot
           /\ files' = o.files
           /\ req' = Answered(h, o.resp)
    /\ pc' = [pc EXCEPT ![h] = "done"]
    /\ UNCHANGED <<last, lock, shadow>>

\* create and save up to File::create: the file is there and empty, or the
\* handler has failed before that.
FileCreate(h) ==
    /\ pc[h] = "locked"
    /\ WritesFile(req[h].val.call, slot)
    /\ IF FileCreated(req[h].val.call, slot)
       THEN /\ files' = [files EXCEPT ![TargetPath(req[h].val.call, slot)] = Some(<<>>)]
            /\ pc' = [pc EXCEPT ![h] = "writing"]
            /\ UNCHANGED <<slot, req>>
       ELSE LET o == Handle(req[h].val.call, slot, files, <<>>)
            IN  /\ slot' = o.slot
                /\ files' = o.files
                /\ req' = Answered(h, o.resp)
                /\ pc' = [pc EXCEPT ![h] = "done"]
    /\ lock' = guard_during_io(h)
    /\ UNCHANGED <<last, shadow>>

\* create and save from write_all on.
FileWrite(h) ==
    /\ pc[h] = "writing"
    /\ WritesFile(req[h].val.call, slot)
    /\ \E keys \in KeyOrders(IF req[h].val.call.op = "save" THEN slot ELSE None) :
          LET o == Handle(req[h].val.call, slot, files, keys)
          IN  /\ slot' = o.slot
              /\ files' = o.files
              /\ req' = Answered(h, o.resp)
    /\ pc' = [pc EXCEPT ![h] = "done"]
    /\ UNCHANGED <<last, lock, shadow>>

\* The handler returns (or has unwound): the guard is dropped and the answer
\* in req[h], if there is one, goes out.
Release(h) ==
    /\ pc[h] = "done"
    /\ lock' = guard_dropped(h)
    /\ req' = [req EXCEPT ![h] = None]
    /\ pc' = [pc EXCEPT ![h] = "idle"]
    /\ UNCHANGED <<slot, files, last, shadow>>

\* main: the server starts only if the file at PATH loads, then serves with
\* an empty slot.
InitialFiles ==
    [FoundFiles EXCEPT ![PATH] = Some(serialize([name |-> "db", tables |-> <<>>], <<>>))]

InitServer ==
    /\ slot = None
    /\ files = InitialFiles
    /\ last = Call("main", [path |-> PATH], Ok)
    /\ lock = Free
    /\ pc = [h \in Handlers |-> "idle"]
    /\ req = [h \in Handlers |-> None]
    /\ shadow = [slot |-> None, files |-> InitialFiles]

NextServer ==
    \E h \in Handlers :
        \/ Receive(h)
        \/ \E r \in Requests : Acquire(h, r)
        \/ Run(h)
        \/ FileCreate(h)
        \/ FileWrite(h)
        \/ Release(h)

SpecServer == InitServer /\ [][NextServer]_vars

-----------------------------------------------------------------------------
(* SpecSession: the same server, its clients creating and opening databases *)
(* at several places, "a" among them, and changing and saving them.         *)

SessionRequests ==
    {Request("create", [name |-> "db", path |-> p]) : p \in {PATH, "a", "full"}}
    \cup {Request("open", [path |-> p]) : p \in {PATH, "a", "bad"}}
    \cup {Request("save", NoArgs)}
    \cup {Request("create_table", [name |-> "t", schema |-> <<"Int">>])}
    \cup {Request("insert_row", [table |-> "t", row |-> <<Int1>>])}
    \cup {Request("get_rows", [table |-> "t"])}

NextSession ==
    \E h \in Handlers :
        \/ Receive(h)
        \/ \E r \in SessionRequests : Acquire(h, r)
        \/ Run(h)
        \/ FileCreate(h)
        \/ FileWrite(h)
        \/ Release(h)

SpecSession == InitServer /\ [][NextSession]_vars

-----------------------------------------------------------------------------
(* SpecProgress: the same server under fair scheduling, with requests that  *)
(* succeed and requests that fail: a create whose file cannot be written or *)
(* whose directory cannot be made, an open of a file that is not there, a   *)
(* create_table of a name in use, a remove_table of a name not there.       *)

ProgressRequests ==
    {Request("create", [name |-> "db", path |-> p]) : p \in {PATH, "full", "ro/x"}}
    \cup {Request("open", [path |-> "dir"])}
    \cup {Request("save", NoArgs)}
    \cup {Request("create_table", [name |-> "t", schema |-> <<"Int">>])}
    \cup {Request("remove_table", [name |-> "t"])}
    \cup {Request("insert_row", [table |-> "t", row |-> <<Int1>>])}
    \cup {Request("get_rows", [table |-> "t"])}

NextProgress ==
    \E h \in Handlers :
        \/ Receive(h)
        \/ \E r \in ProgressRequests : Acquire(h, r)
        \/ Run(h)
        \/ FileCreate(h)
        \/ FileWrite(h)
        \/ Release(h)

\* The runtime polls every task that can go on, and tokio's Mutex hands
\* the lock to its waiters in the order in which they came: a task that
\* waits at lock().await gets the lock if the lock keeps coming free.
Fairness ==
    \A h \in Handlers :
        /\ SF_vars(\E r \in ProgressRequests : Acquire(h, r))
        /\ WF_vars(Run(h))
        /\ WF_vars(FileCreate(h))
        /\ WF_vars(FileWrite(h))
        /\ WF_vars(Release(h))

SpecProgress == InitServer /\ [][NextProgress]_vars /\ Fairness

-----------------------------------------------------------------------------
(* What the claims are stated in *)

\* The tables of the database in the slot, before and after a step.
Tables == slot.val.db.tables
TablesAfter == slot'.val.db.tables

\* The last call was `op` and went to a table that existed when it was made.
CalledOnTable(op) ==
    /\ last'.op = op
    /\ slot.some
    /\ last'.args.table \in DOMAIN Tables

\* The positions at which the mask is set, and the k-th of them from the left.
Kept(mask) == {i \in 1..Len(mask) : mask[i]}
KthKept(mask, k) ==
    CHOOSE i \in Kept(mask) : Cardinality({j \in Kept(mask) : j < i}) = k - 1

\* The sub-sequence of seq at the positions where the mask is set.
SubSequenceAt(seq, mask) ==
    [k \in 1..Cardinality(Kept(mask)) |-> seq[KthKept(mask, k)]]

-----------------------------------------------------------------------------
(* The table API, under Spec *)

\* C1: in every reachable state every row of every table has a derived
\* schema equal to the schema of its table: same length, same tags, same order.
C1_SchemaInvariant ==
    slot.some =>
        \A n \in DOMAIN Tables :
            \A i \in 1..Len(Tables[n].rows) :
                LET row == Tables[n].rows[i]
                IN  /\ Len(row) = Len(Tables[n].schema)
                    /\ \A c \in 1..Len(row) : get_type(row[c]) = Tables[n].schema[c]

\* A projection has just filled a table with two rows of one column while
\* the table it read holds two rows of two columns.
C1_Witness ==
    /\ last.op = "projection" /\ last.res = Ok
    /\ DOMAIN Tables = TableNames
    /\ Len(Tables[last.args.new_name].rows) = 2
    /\ Len(Tables[last.args.new_name].schema) = 1
    /\ Len(Tables[last.args.table].schema) = 2
    /\ Len(Tables[last.args.table].rows) = 2

\* C2: insert_row succeeds exactly when the row's derived schema equals the
\* table's schema; on success the rows are the old rows with the row appended
\* at the end; otherwise it returns IncorrectRow and the rows are unchanged.
C2_InsertRow ==
    [][CalledOnTable("insert_row") =>
        LET old == Tables[last'.args.table]
            new == TablesAfter[last'.args.table]
            row == last'.args.row
        IN  /\ (last'.res = Ok) <=> (Row_schema(row) = old.schema)
            /\ last'.res = Ok =>
                  /\ Len(new.rows) = Len(old.rows) + 1
                  /\ new.rows[Len(new.rows)] = row
                  /\ \A i \in 1..Len(old.rows) : new.rows[i] = old.rows[i]
            /\ last'.res # Ok =>
                  /\ last'.res = Err("IncorrectRow", "")
                  /\ new.rows = old.rows]_vars

\* An insert_row has just put a second, different row behind the first.
C2_Witness ==
    /\ last.op = "insert_row" /\ last.res = Ok
    /\ LET rows == Tables[last.args.table].rows
       IN  /\ Len(rows) = 2
           /\ rows[2] = last.args.row
           /\ rows[1] # rows[2]

\* C3: a successful projection with a mask as long as the source schema and
\* an unused new name creates the table new_name, whose schema is the source
\* schema at the positions where the mask is set, in order, and whose rows
\* are the source's rows, one for one and in order, each cut down to the
\* same positions; the source table is unchanged.
C3_Projection ==
    [][(/\ last'.op = "projection" /\ last'.res = Ok
        /\ slot.some
        /\ last'.args.table \in DOMAIN Tables
        /\ Len(last'.args.mask) = Len(Tables[last'.args.table].schema)
        /\ last'.args.new_name \notin DOMAIN Tables) =>
        LET mask == last'.args.mask
            src == Tables[last'.args.table]
        IN  /\ last'.args.new_name \in DOMAIN TablesAfter
            /\ LET new == TablesAfter[last'.args.new_name]
               IN  /\ new.schema = SubSequenceAt(src.schema, mask)
                   /\ Len(new.rows) = Len(src.rows)
                   /\ \A i \in 1..Len(src.rows) :
                         new.rows[i] = SubSequenceAt(src.rows[i], mask)
            /\ TablesAfter[last'.args.table] = src]_vars

\* A projection has just kept the second of two columns of a table with two
\* different rows.
C3_Witness ==
    /\ last.op = "projection" /\ last.res = Ok
    /\ last.args.mask = <<FALSE, TRUE>>
    /\ Len(Tables[last.args.table].rows) = 2
    /\ Tables[last.args.table].rows[1] # Tables[last.args.table].rows[2]
    /\ Tables[last.args.new_name].schema = <<"String">>
    /\ Len(Tables[last.args.new_name].rows) = 2

\* C7: create_table succeeds exactly when no table has the name; otherwise
\* it fails with TableIsAlreadyPresent(name) and the set of table names and
\* every table's schema and rows, the named table's included, are unchanged.
C7_CreateTableUnique ==
    [][(last'.op = "create_table" /\ slot.some) =>
        LET name == last'.args.name
        IN  /\ (last'.res = Ok) <=> (name \notin DOMAIN Tables)
            /\ name \in DOMAIN Tables =>
                  /\ last'.res = Err("TableIsAlreadyPresent", name)
                  /\ DOMAIN TablesAfter = DOMAIN Tables
                  /\ \A n \in DOMAIN Tables :
                        /\ TablesAfter[n].schema = Tables[n].schema
                        /\ TablesAfter[n].rows = Tables[n].rows]_vars

\* A create_table has just been refused for a name whose table holds rows.
C7_Witness ==
    /\ last.op = "create_table"
    /\ last.res = Err("TableIsAlreadyPresent", last.args.name)
    /\ Len(Tables[last.args.name].rows) >= 1
    /\ Tables[last.args.name].schema # last.args.schema

\* C8: update_row with an index within bounds and a row of the table's
\* schema replaces exactly the row at the index: the row count and every
\* other row are unchanged; with a row of another schema it fails with
\* IncorrectRow and the rows are unchanged.
C8_UpdateRow ==
    [][CalledOnTable("update_row") =>
        LET old == Tables[last'.args.table]
            new == TablesAfter[last'.args.table]
            row == last'.args.row
            idx == last'.args.idx
        IN  /\ (idx < Len(old.rows) /\ Row_schema(row) = old.schema) =>
                  /\ last'.res = Ok
                  /\ Len(new.rows) = Len(old.rows)
                  /\ new.rows[idx + 1] = row
                  /\ \A i \in 1..Len(old.rows) :
                        i # idx + 1 => new.rows[i] = old.rows[i]
            /\ Row_schema(row) # old.schema =>
                  /\ last'.res = Err("IncorrectRow", "")
                  /\ new.rows = old.rows]_vars

\* An update_row has just replaced the first of two rows by a row that
\* differs from the second.
C8_Witness ==
    /\ last.op = "update_row" /\ last.res = Ok
    /\ last.args.idx = 0
    /\ LET rows == Tables[last.args.table].rows
       IN  /\ Len(rows) = 2
           /\ rows[1] = last.args.row
           /\ rows[1] # rows[2]

\* C9: update_row with an index at or beyond the row count fails with an
\* IndexOutOfRange error value, also for a row of the table's schema; it
\* never panics and the table is unchanged.
C9_UpdateRowOutOfRange ==
    [][(/\ CalledOnTable("update_row")
        /\ last'.args.idx >= Len(Tables[last'.args.table].rows)) =>
        /\ last'.res = Err("IndexOutOfRange", "")
        /\ TablesAfter = Tables]_vars

\* C10: remove_row with an index below the row count removes exactly that
\* row, the rows after it moving down by one with their order kept; with an
\* index at or beyond the row count the rows are unchanged and no error is
\* reported.
C10_RemoveRow ==
    [][CalledOnTable("remove_row") =>
        LET old == Tables[last'.args.table].rows
            new == TablesAfter[last'.args.table].rows
            idx == last'.args.idx
        IN  /\ last'.res = Ok
            /\ idx < Len(old) =>
                  /\ Len(new) = Len(old) - 1
                  /\ \A i \in 1..Len(new) :
                        new[i] = IF i <= idx THEN old[i] ELSE old[i + 1]
            /\ idx >= Len(old) => new = old]_vars

\* A remove_row has just taken the first row from under another one.
C10_Witness ==
    /\ last.op = "remove_row" /\ last.res = Ok
    /\ last.args.idx = 0
    /\ Len(Tables[last.args.table].rows) = MaxRows - 1
    /\ Tables[last.args.table].schema = <<"Int", "String">>

\* C11: projection with a mask whose length differs from the length of the
\* source table's schema fails with IncorrectRow and creates no table: the
\* set of table names and every table are as before the call, whether or
\* not new_name is in use.
C11_ProjectionMaskLength ==
    [][(/\ CalledOnTable("projection")
        /\ Len(last'.args.mask) # Len(Tables[last'.args.table].schema)) =>
        /\ last'.res = Err("IncorrectRow", "")
        /\ DOMAIN TablesAfter = DOMAIN Tables
        /\ \A n \in DOMAIN Tables : TablesAfter[n] = Tables[n]]_vars

\* A projection of a table of two columns that holds a row has just been
\* refused for a mask of one entry, its new name being free.
C11_Witness ==
    /\ last.op = "projection" /\ last.res = Err("IncorrectRow", "")
    /\ last.args.table \in DOMAIN Tables
    /\ Len(Tables[last.args.table].schema) = 2
    /\ Len(Tables[last.args.table].rows) >= 1
    /\ Len(last.args.mask) = 1
    /\ last.args.new_name \notin DOMAIN Tables

\* C12: projection with a mask of the right length and a new_name that is
\* the name of an existing table, the source's own name included, fails with
\* TableIsAlreadyPresent and leaves the database unchanged: the source and
\* the table called new_name keep schema and rows, no table gains a row.
C12_ProjectionCollision ==
    [][(/\ CalledOnTable("projection")
        /\ Len(last'.args.mask) = Len(Tables[last'.args.table].schema)
        /\ last'.args.new_name \in DOMAIN Tables) =>
        /\ last'.res = Err("TableIsAlreadyPresent", last'.args.new_name)
        /\ slot' = slot]_vars

\* A projection has just been refused because its new name belongs to
\* another table, whose schema is the one the projection would have made and
\* which holds fewer rows than the source.
C12_Witness ==
    /\ last.op = "projection"
    /\ last.res = Err("TableIsAlreadyPresent", last.args.new_name)
    /\ last.args.table \in DOMAIN Tables
    /\ last.args.new_name \in DOMAIN Tables
    /\ last.args.new_name # last.args.table
    /\ Tables[last.args.new_name].schema =
          SubSequenceAt(Tables[last.args.table].schema, last.args.mask)
    /\ Len(Tables[last.args.table].rows) >= 1
    /\ Len(Tables[last.args.new_name].rows) < Len(Tables[last.args.table].rows)

\* C18: get_table, get_table_mut and remove_table with a name that is not
\* in the database fail with TableIsMissing(name) and change nothing: the
\* set of table names and every table's schema and rows are as before.
C18_MissingLookup ==
    [][(/\ last'.op \in {"get_table", "get_table_mut", "remove_table"}
        /\ slot.some
        /\ last'.args.name \notin DOMAIN Tables) =>
        /\ last'.res = Err("TableIsMissing", last'.args.name)
        /\ DOMAIN TablesAfter = DOMAIN Tables
        /\ \A n \in DOMAIN Tables :
              /\ TablesAfter[n].schema = Tables[n].schema
              /\ TablesAfter[n].rows = Tables[n].rows]_vars

\* A remove_table has just been refused for a name that is not there, the
\* other table holding rows.
C18_Witness ==
    /\ last.op = "remove_table"
    /\ last.res = Err("TableIsMissing", last.args.name)
    /\ last.args.name \notin DOMAIN Tables
    /\ \E n \in DOMAIN Tables : Len(Tables[n].rows) = 2

-----------------------------------------------------------------------------
(* Persistence, under SpecDisk *)

\* C4: saving a database and then opening the saved file yields a database
\* equal to it in name, set of table names, each table's schema and each
\* table's rows, values and order alike.
C4_RoundTrip ==
    [][(/\ last.op = "save" /\ last.res = Ok
        /\ last'.op = "load_from_disk"
        /\ last'.args.path = slot.val.path) =>
        /\ last'.res = Ok
        /\ slot'.some
        /\ get_name(slot'.val) = get_name(slot.val)
        /\ DOMAIN TablesAfter = DOMAIN Tables
        /\ \A n \in DOMAIN Tables :
              /\ TablesAfter[n].schema = Tables[n].schema
              /\ Len(TablesAfter[n].rows) = Len(Tables[n].rows)
              /\ \A i \in 1..Len(Tables[n].rows) :
                    TablesAfter[n].rows[i] = Tables[n].rows[i]]_vars

\* A load_from_disk has just returned a database of two tables, one of them
\* with two different rows.
C4_Witness ==
    /\ last.op = "load_from_disk" /\ last.res = Ok
    /\ DOMAIN Tables = {"t", "p"}
    /\ Len(Tables["t"].rows) = 2
    /\ Tables["t"].rows[1] # Tables["t"].rows[2]
    /\ Len(Tables["p"].rows) >= 1

\* C17: create and save report a parent directory that cannot be created,
\* and a file that cannot be created or written, as an Io error value
\* returned to the caller; neither of them panics.
C17_IoErrorReturned ==
    [][(/\ last'.op \in {"create", "save"}
        /\ PathKind[last'.args.path] # "ok") =>
        last'.res = Err("Io", "")]_vars

\* The table holds a row whose derived schema is not the table's schema.
HasBadRow(table) ==
    \E i \in 1..Len(table.rows) :
        \/ Len(table.rows[i]) # Len(table.schema)
        \/ \E c \in 1..Len(table.rows[i]) :
              get_type(table.rows[i][c]) # table.schema[c]

\* C13: load_from_disk of a file whose data holds a table with a row that
\* does not fit that table's stored schema fails with InvalidTableState
\* naming such a table, and the loaded data does not become the database
\* held in the slot.
C13_CorruptLoad ==
    [][(last'.op = "load_from_disk" /\ files[last'.args.path].some) =>
        \A stored \in {deserialize(files[last'.args.path].val)} :
            (stored.ok /\ \E n \in DOMAIN stored.val.tables :
                             HasBadRow(stored.val.tables[n])) =>
                /\ last'.res.tag = "InvalidTableState"
                /\ \E n \in DOMAIN stored.val.tables :
                      /\ HasBadRow(stored.val.tables[n])
                      /\ last'.res.arg = stored.val.tables[n].name
                /\ slot' = slot]_vars

\* A load_from_disk of the corrupt file has just been refused while a
\* database with a table that holds a row is open.
C13_Witness ==
    /\ last.op = "load_from_disk" /\ last.args.path = "bad"
    /\ last.res = Err("InvalidTableState", "t")
    /\ slot.some
    /\ "t" \in DOMAIN Tables
    /\ Len(Tables["t"].rows) >= 1

\* C20: only save and create write a file (load_from_disk reads one):
\* create_table, remove_table, insert_row, update_row, remove_row and
\* projection leave every file as it is; a save or create that succeeds
\* leaves in the file at the bound path the database as it is then.  So the
\* file holds the database as of the last successful save or create, and
\* nothing of what was changed after it.
C20_OnlySaveWrites ==
    [][/\ last'.op \notin {"save", "create"} => files' = files
       /\ (last'.op \in {"save", "create"} /\ last'.res = Ok) =>
              /\ \A p \in Paths \ {slot'.val.path} : files'[p] = files[p]
              /\ \A stored \in {deserialize(files'[slot'.val.path].val)} :
                    stored = DeOk(slot'.val.db, <<>>)]_vars

\* An insert_row has just put a second row in a table whose file, saved
\* before, has the first row only.
C20_Witness ==
    /\ last.op = "insert_row" /\ last.res = Ok
    /\ slot.some
    /\ Len(Tables["t"].rows) = 2
    /\ files[slot.val.path].some
    /\ \E stored \in {deserialize(files[slot.val.path].val)} :
          /\ stored.ok
          /\ "t" \in DOMAIN stored.val.tables
          /\ stored.val.tables["t"].rows = <<Tables["t"].rows[1]>>

-----------------------------------------------------------------------------
(* The server, under SpecServer *)

\* What is stored at each path, read back: the database the bytes decode to.
Persisted(f) ==
    [p \in Paths |-> IF f[p].some THEN Some(deserialize(f[p].val)) ELSE None]

SameAnswer(a, b) == a.tag = b.tag /\ (a.tag = "Reply" => a.arg = b.arg)

InCritical == {"locked", "writing", "done"}

\* C5: however the requests interleave, each request is answered as it
\* would be, and whenever no request is under way the slot and the persisted
\* state are what they would be, had the requests run one at a time in the
\* order in which they took the lock; no half-written state is persisted
\* or observed.
C5_Serialized ==
    /\ \A h \in Handlers :
          pc[h] = "done" => SameAnswer(req[h].val.resp, req[h].val.expect)
    /\ lock = Free =>
          /\ slot = shadow.slot
          /\ Persisted(files) = Persisted(shadow.files)

\* A save has just written a table of two rows, created and filled by
\* earlier requests, while another request waits for the lock.
C5_Witness ==
    \E h \in Handlers, g \in Handlers :
        /\ pc[h] = "done" /\ pc[g] = "waiting"
        /\ req[h].val.call.op = "save" /\ req[h].val.resp = Unit
        /\ slot.some
        /\ Persisted(files)[PATH] = Some(DeOk(slot.val.db, <<>>))
        /\ "t" \in DOMAIN Tables
        /\ Len(Tables["t"].rows) = 2

\* C6: at most one handler at a time is between taking the lock and
\* dropping it, and a handler in that stretch, a read-only one or one doing
\* file I/O alike, is the holder of the lock.
C6_MutualExclusion ==
    /\ Cardinality({h \in Handlers : pc[h] \in InCritical}) <= 1
    /\ \A h \in Handlers : pc[h] \in InCritical => lock = h

\* A save is between File::create and write_all, holding the lock, while
\* another request waits.
C6_Witness ==
    \E h \in Handlers, g \in Handlers :
        /\ pc[h] = "writing" /\ pc[g] = "waiting"
        /\ req[h].val.call.op = "save"
        /\ lock = h
        /\ slot.some
        /\ files[slot.val.path] = Some(<<>>)

-----------------------------------------------------------------------------
(* Sessions, under SpecSession *)

\* Handler h ends its body in this step.
Completes(h) == pc[h] \in {"locked", "writing"} /\ pc'[h] = "done"

\* C14: a create or open that succeeds while a database is open replaces
\* it outright: the slot then holds the created or loaded database and
\* nothing of the old one, and the old one is not saved on the way: no file
\* but the one created changes, so what was changed since the last save is
\* in no file.
C14_ReplaceOnOpen ==
    [][\A h \in Handlers :
        (/\ Completes(h)
         /\ req[h].val.call.op \in {"create", "open"}
         /\ req'[h].val.resp = Unit
         /\ slot.some) =>
        LET call == req[h].val.call
        IN  /\ slot'.some
            /\ slot'.val.path = call.args.path
            /\ \A p \in Paths \ {call.args.path} : files'[p] = files[p]
            /\ call.op = "create" =>
                  /\ slot'.val.db = [name |-> call.args.name, tables |-> <<>>]
                  /\ deserialize(files'[call.args.path].val) = DeOk(slot'.val.db, <<>>)
            /\ call.op = "open" =>
                  /\ files' = files
                  /\ deserialize(files[call.args.path].val) = DeOk(slot'.val.db, <<>>)]_vars

\* A create has just replaced a database bound to another path whose
\* table held a row that its file does not have.
C14_Witness ==
    \E h \in Handlers :
        /\ pc[h] = "done"
        /\ req[h].val.call.op = "create" /\ req[h].val.resp = Unit
        /\ req[h].val.replaced.some
        /\ req[h].val.replaced.val.path # slot.val.path
        /\ "t" \in DOMAIN req[h].val.replaced.val.db.tables
        /\ Len(req[h].val.replaced.val.db.tables["t"].rows) >= 1
        /\ files[req[h].val.replaced.val.path].some
        /\ deserialize(files[req[h].val.replaced.val.path].val)
              # DeOk(req[h].val.replaced.val.db, <<>>)
        /\ Tables = <<>>

-----------------------------------------------------------------------------
(* Failures at the request boundary, under SpecServer *)

\* C15: a create or open that fails (no file to read, bytes that do not
\* decode, a table that does not validate, a file that cannot be created or
\* written) leaves the slot as it was, the open database with its tables and
\* rows or none; its handler then gives the lock back with the slot still
\* so, and the server goes on serving.
C15_FailedOpenKeepsSlot ==
    [][\A h \in Handlers :
        /\ (/\ Completes(h)
             /\ req[h].val.call.op \in {"create", "open"}
             /\ req'[h].val.resp # Unit) =>
                slot' = slot
        /\ (/\ pc[h] = "done" /\ pc'[h] # "done"
             /\ req[h].val.call.op \in {"create", "open"}
             /\ req[h].val.resp # Unit) =>
                /\ slot' = slot
                /\ lock' = Free
                /\ pc'[h] = "idle"]_vars

\* An open of a file whose bytes do not decode, left behind by a create
\* that could not write, has just failed while a database with a row in a
\* table is open.
C15_Witness ==
    \E h \in Handlers :
        /\ pc[h] = "done"
        /\ req[h].val.call.op = "open" /\ req[h].val.call.args.path = "full"
        /\ files["full"] = Some(<<>>)
        /\ req[h].val.resp = Panic
        /\ slot.some
        /\ "t" \in DOMAIN Tables
        /\ Len(Tables["t"].rows) >= 1

\* What the core operation behind request r returns on the database sdb.
CoreOutcome(r, sdb) ==
    CASE r.op = "remove_row" -> get_table_mut(sdb, r.args.table).res
      [] r.op = "insert_row" ->
            IF get_table_mut(sdb, r.args.table).res # Ok
            THEN get_table_mut(sdb, r.args.table).res
            ELSE insert_row(get_table_mut(sdb, r.args.table).table, r.args.row).res
      [] r.op = "create_table" -> create_table(sdb, r.args.name, r.args.schema).res
      [] r.op = "remove_table" -> remove_table(sdb, r.args.name).res
      [] r.op = "table_projection" ->
            projection(sdb, r.args.table, r.args.rows, r.args.new_table).res
      [] OTHER -> Ok

\* C16: a remove_row, insert_row, create_table, remove_table or
\* table_projection request whose core operation fails (a missing table, a
\* row or mask that does not fit, a name in use) is never answered as a
\* successful one is, with the unit value.
C16_OutcomeForwarded ==
    [][\A h \in Handlers :
        (/\ Completes(h)
         /\ slot.some
         /\ CoreOutcome(req[h].val.call, slot.val) # Ok) =>
        req'[h].val.resp # Unit]_vars

-----------------------------------------------------------------------------
(* Progress, under SpecProgress *)

\* C19: the lock is given back on every way out of a handler, a failed
\* one included: the lock is held only by a handler inside its body, some
\* step is possible in every reachable state, and every request that waits
\* for the lock gets it and comes to its end.
C19_LockReleased ==
    /\ [](\A h \in Handlers : lock = h => pc[h] \in InCritical)
    /\ [](ENABLED NextProgress)
    /\ \A h \in Handlers : (pc[h] = "waiting") ~> (pc[h] = "locked")
    /\ \A h \in Handlers : (pc[h] = "waiting") ~> (pc[h] = "idle")

\* A request waits for the lock while the handler that holds it has
\* panicked in a create that could not write its file.
C19_Witness ==
    \E h \in Handlers, g \in Handlers :
        /\ pc[h] = "waiting"
        /\ pc[g] = "done" /\ lock = g
        /\ req[g].val.call.op = "create"
        /\ req[g].val.resp = Panic
        /\ files["full"] = Some(<<>>)

====
